---- MODULE Spec2Model ----
(***************************************************************************)
(* Model of the mcp-outlook scheduling core: the time utilities, the       *)
(* availability normaliser (AvailabilityService), the intersection engine  *)
(* (IntersectionService) and the orchestrator (FindMeetingTimesService).   *)
(*                                                                         *)
(* Instants are integers counted in ticks; one minute is TicksPerMinute    *)
(* ticks, so that the rounding done by getDurationMinutes is visible.      *)
(* Tick 0 is the start of an hour.  A confidence is kept as the exact      *)
(* fraction num/den the code computes.                                     *)
(***************************************************************************)
EXTENDS Integers, Sequences, FiniteSets, TLC

VARIABLES
    pc,         \* control point of the request being served
    input,      \* the request (ProposeMeetingTimesInput / GetAvailabilityInput)
    users,      \* userAvailabilities: one record per participant processed so far
    responses,  \* what the provider answered for each participant, in order
    calls,      \* provider requests issued so far, in order
    ranked,     \* findIntersectingSlots: the sorted list before slice()
    out,        \* the value returned (or the error thrown) by the operation
    attempt,    \* executeWithRetry: the attempt of the native call under way
    graphResult \* how tryGraphFindMeetingTimes settled, and what it returned

vars == <<pc, input, users, responses, calls, ranked, out, attempt, graphResult>>

\* graphResult before tryGraphFindMeetingTimes has settled.
NoGraphResult == [state |-> "pending", candidates |-> <<>>]

-----------------------------------------------------------------------------
(* Bounds of the model *)

TicksPerMinute == 2
MaxSeeds == 3
MaxFree == 1
MaxPeriods == 2

-----------------------------------------------------------------------------
(* utils/time.ts *)

Abs(x) == IF x < 0 THEN 0 - x ELSE x
Min(a, b) == IF a < b THEN a ELSE b
Max(a, b) == IF a > b THEN a ELSE b
Sign(x) == IF x < 0 THEN 0 - 1 ELSE IF x > 0 THEN 1 ELSE 0

\* Math.round(p / q) for q > 0: the nearest integer, halves rounded up.
MathRound(p, q) == (2 * p + q) \div (2 * q)

MinutesPerHour == 60
TicksPerHour == MinutesPerHour * TicksPerMinute

Interval(s, e) == [start |-> s, end |-> e]

\* getDurationMinutes: Math.round((end - start) / 60000)
getDurationMinutes(s, e) == MathRound(e - s, TicksPerMinute)

\* Date.setMinutes(getMinutes() + m): the seconds are kept.
addMinutes(t, m) == t + m * TicksPerMinute

\* roundToInterval: round the minute of the hour to a multiple of the
\* interval and clear the seconds; a rounded minute of 60 rolls into the
\* next hour, as setMinutes does.
roundToInterval(t, intervalMinutes) ==
    LET hourStart == (t \div TicksPerHour) * TicksPerHour
        minutes == (t - hourStart) \div TicksPerMinute
        roundedMinutes == MathRound(minutes, intervalMinutes) * intervalMinutes
    IN  hourStart + roundedMinutes * TicksPerMinute

intervalsOverlap(a, b) == a.start < b.end /\ b.start < a.end

NoInterval == [start |-> 0 - 1, end |-> 0 - 1]

\* intersectIntervals: null (NoInterval) when the two do not overlap.
intersectIntervals(a, b) ==
    IF ~intervalsOverlap(a, b) THEN NoInterval
    ELSE Interval(Max(a.start, b.start), Min(a.end, b.end))

-----------------------------------------------------------------------------
(* Array.prototype.sort as the engine runs it on a short array: count the  *)
(* leading run (reversing a strictly descending one), then binary          *)
(* insertion of the remaining elements.  With a consistent comparator this *)
(* is a stable sort; with an inconsistent one it is what the engine        *)
(* returns.                                                                *)

\* The two comparators the code passes to sort().
\* "start":  (a, b) => a.start - b.start
\* "ranked": confidence descending when it differs by more than 0.1,
\*           otherwise start ascending.
ConfDiffersMoreThanTenth(a, b) ==
    10 * Abs(a.num * b.den - b.num * a.den) > a.den * b.den

Compare(mode, a, b) ==
    IF mode = "ranked" /\ ConfDiffersMoreThanTenth(a, b)
        THEN Sign(b.num * a.den - a.num * b.den)
        ELSE Sign(a.start - b.start)

Reverse(s) == [i \in 1..Len(s) |-> s[Len(s) + 1 - i]]

\* Length of the leading run of s (Len(s) >= 2) and whether it descends.
RunIsDescending(mode, s) == Compare(mode, s[2], s[1]) < 0

RECURSIVE RunLength(_, _, _, _)
RunLength(mode, s, desc, k) ==
    \* s[1..k] is a run; extend it while the order continues
    IF k >= Len(s) THEN k
    ELSE LET order == Compare(mode, s[k + 1], s[k])
         IN  IF (desc /\ order >= 0) \/ (~desc /\ order < 0) THEN k
             ELSE RunLength(mode, s, desc, k + 1)

RECURSIVE BinarySearch(_, _, _, _, _)
BinarySearch(mode, s, pivot, left, right) ==
    \* positions are 1-based; the answer is the slot pivot is inserted at
    IF left >= right THEN left
    ELSE LET mid == left + ((right - left) \div 2)
         IN  IF Compare(mode, pivot, s[mid]) < 0
                 THEN BinarySearch(mode, s, pivot, left, mid)
                 ELSE BinarySearch(mode, s, pivot, mid + 1, right)

InsertAt(s, pos, x) ==
    SubSeq(s, 1, pos - 1) \o <<x>> \o SubSeq(s, pos, Len(s))

RECURSIVE BinaryInsertionSort(_, _, _)
BinaryInsertionSort(mode, s, start) ==
    \* s[1..start-1] is in place; insert s[start], s[start+1], ...
    IF start > Len(s) THEN s
    ELSE LET pivot == s[start]
             left == BinarySearch(mode, s, pivot, 1, start)
             placed == InsertAt(SubSeq(s, 1, start - 1), left, pivot)
                           \o SubSeq(s, start + 1, Len(s))
         IN  BinaryInsertionSort(mode, placed, start + 1)

ArraySort(mode, s) ==
    IF Len(s) < 2 THEN s
    ELSE LET desc == RunIsDescending(mode, s)
             run == RunLength(mode, s, desc, 2)
             made == IF desc
                        THEN Reverse(SubSeq(s, 1, run)) \o SubSeq(s, run + 1, Len(s))
                        ELSE s
         IN  BinaryInsertionSort(mode, made, run + 1)

Slice(s, n) == SubSeq(s, 1, Min(n, Len(s)))

-----------------------------------------------------------------------------
(* scheduling/intersect.ts : IntersectionService *)

\* The statuses of a map that are 'free' or 'tentative', counted.
CountStatus(att, status) == Cardinality({e \in DOMAIN att : att[e] = status})

\* Mutant of calculateConfidence: the score is averaged over the participants
\* that are not busy.
calculateConfidence_present(attendeeAvailability, totalAttendees) ==
    LET freeCount == CountStatus(attendeeAvailability, "free")
        tentativeCount == CountStatus(attendeeAvailability, "tentative")
        totalScore2 == 2 * freeCount + tentativeCount
    IN  IF freeCount + tentativeCount > 0
            THEN [num |-> totalScore2, den |-> 2 * (freeCount + tentativeCount)]
            ELSE [num |-> 0, den |-> 1]

\* calculateConfidence: (free * 1.0 + tentative * 0.5 + busy * 0.0) / total,
\* kept as a fraction in halves.
calculateConfidence(attendeeAvailability, totalAttendees) ==
    LET freeCount == CountStatus(attendeeAvailability, "free")
        tentativeCount == CountStatus(attendeeAvailability, "tentative")
        totalScore2 == 2 * freeCount + tentativeCount
    IN  IF totalAttendees > 0
            THEN [num |-> totalScore2, den |-> 2 * totalAttendees]
            ELSE [num |-> 0, den |-> 1]

Candidate(s, e, att, conf) ==
    [start |-> s, end |-> e, attendeeAvailability |-> att,
     num |-> conf.num, den |-> conf.den]

\* findBestIntersection: the intersection with the largest rounded overlap,
\* the first one on ties; null when none has a positive rounded overlap.
RECURSIVE BestFrom(_, _, _, _, _)
BestFrom(target, userIntervals, k, bestIntersection, bestOverlap) ==
    IF k > Len(userIntervals) THEN bestIntersection
    ELSE LET intersection == intersectIntervals(target, userIntervals[k])
             overlap == getDurationMinutes(intersection.start, intersection.end)
         IN  IF intersection # NoInterval /\ overlap > bestOverlap
                 THEN BestFrom(target, userIntervals, k + 1, intersection, overlap)
                 ELSE BestFrom(target, userIntervals, k + 1, bestIntersection, bestOverlap)

findBestIntersection(target, userIntervals) ==
    BestFrom(target, userIntervals, 1, NoInterval, 0)

\* Mutant of meetingSlot: the duration test is > instead of >=.
meetingSlot_strict(in, interval) ==
    LET slotDuration == getDurationMinutes(interval.start, interval.end)
        totalBufferTime == in.bufferBeforeMinutes + in.bufferAfterMinutes
        effectiveDuration == slotDuration - totalBufferTime
        meetingStart == addMinutes(interval.start, in.bufferBeforeMinutes)
    IN  IF slotDuration > in.durationMinutes
            THEN IF in.bufferBeforeMinutes = 0 /\ in.bufferAfterMinutes = 0
                     THEN <<Interval(interval.start, interval.end)>>
                     ELSE IF effectiveDuration < in.durationMinutes
                              THEN <<>>
                              ELSE <<Interval(meetingStart,
                                              addMinutes(meetingStart, in.durationMinutes))>>
            ELSE <<>>

\* The duration test and the buffers, the same in both paths: the meeting
\* slot cut from an interval, as a sequence of zero or one interval.
meetingSlot(in, interval) ==
    LET slotDuration == getDurationMinutes(interval.start, interval.end)
        totalBufferTime == in.bufferBeforeMinutes + in.bufferAfterMinutes
        effectiveDuration == slotDuration - totalBufferTime
        meetingStart == addMinutes(interval.start, in.bufferBeforeMinutes)
    IN  IF slotDuration >= in.durationMinutes
            THEN IF in.bufferBeforeMinutes = 0 /\ in.bufferAfterMinutes = 0
                     THEN <<Interval(interval.start, interval.end)>>
                     ELSE IF effectiveDuration < in.durationMinutes
                              THEN <<>>
                              ELSE <<Interval(meetingStart,
                                              addMinutes(meetingStart, in.durationMinutes))>>
            ELSE <<>>

\* Mutant of singleUserCandidates: the loop over the free slots ends after
\* the slot it starts with.
singleUserCandidates_once(in, singleUser, k) ==
    IF k > Len(singleUser.free) THEN <<>>
    ELSE LET slot == meetingSlot(in, singleUser.free[k])
         IN  IF slot = <<>> THEN <<>>
             ELSE <<Candidate(slot[1].start, slot[1].end,
                              (singleUser.email :> "free"),
                              [num |-> 1, den |-> 1])>>

\* Single participant: one candidate per free slot that qualifies.
RECURSIVE singleUserCandidates(_, _, _)
singleUserCandidates(in, singleUser, k) ==
    IF k > Len(singleUser.free) THEN <<>>
    ELSE LET slot == meetingSlot(in, singleUser.free[k])
             here == IF slot = <<>> THEN <<>>
                     ELSE <<Candidate(slot[1].start, slot[1].end,
                                      (singleUser.email :> "free"),
                                      [num |-> 1, den |-> 1])>>
         IN  here \o singleUserCandidates(in, singleUser, k + 1)

\* Mutant of foldUsers: a participant without an intersection is marked free.
RECURSIVE foldUsers_allFree(_, _, _)
foldUsers_allFree(userAvailabilities, i, acc) ==
    IF i > Len(userAvailabilities) THEN acc
    ELSE LET user == userAvailabilities[i]
             userIntersection == findBestIntersection(acc.common, user.free)
         IN  IF userIntersection = NoInterval
                 THEN foldUsers_allFree(userAvailabilities, i + 1,
                        [acc EXCEPT !.att = (user.email :> "free") @@ @])
                 ELSE foldUsers_allFree(userAvailabilities, i + 1,
                        [common |-> userIntersection,
                         att |-> (user.email :> "free") @@ acc.att,
                         narrowed |-> TRUE])

\* The fold of one seed interval over the other participants:
\* [common, att, narrowed], narrowed telling whether commonInterval is still
\* the seed object itself (commonInterval === interval).
RECURSIVE foldUsers(_, _, _)
foldUsers(userAvailabilities, i, acc) ==
    IF i > Len(userAvailabilities) THEN acc
    ELSE LET user == userAvailabilities[i]
             userIntersection == findBestIntersection(acc.common, user.free)
         IN  IF userIntersection = NoInterval
                 THEN foldUsers(userAvailabilities, i + 1,
                        [acc EXCEPT !.att = (user.email :> "busy") @@ @])
                 ELSE foldUsers(userAvailabilities, i + 1,
                        [common |-> userIntersection,
                         att |-> (user.email :> "free") @@ acc.att,
                         narrowed |-> TRUE])

\* Mutant of seedCandidate: a common interval with room for two meetings
\* gives a second candidate, right after the first meeting.
seedCandidate_sliding(in, userAvailabilities, interval) ==
    LET firstUser == userAvailabilities[1]
        folded == foldUsers(userAvailabilities, 2,
                    [common |-> interval,
                     att |-> (firstUser.email :> "free"),
                     narrowed |-> FALSE])
        slot == meetingSlot(in, folded.common)
        confidence == calculateConfidence(folded.att, Len(userAvailabilities))
        room == getDurationMinutes(folded.common.start, folded.common.end)
                  - in.bufferBeforeMinutes - in.bufferAfterMinutes
    IN  IF Len(userAvailabilities) > 1 /\ ~folded.narrowed THEN <<>>
        ELSE IF slot = <<>> THEN <<>>
        ELSE <<Candidate(slot[1].start, slot[1].end, folded.att, confidence)>>
             \o (IF room >= 2 * in.durationMinutes
                     THEN <<Candidate(addMinutes(slot[1].start, in.durationMinutes),
                                      addMinutes(slot[1].start, 2 * in.durationMinutes),
                                      folded.att, confidence)>>
                     ELSE <<>>)

\* Mutant of seedCandidate: the seed is compared with the common interval by
\* value, not by identity.
seedCandidate_byValue(in, userAvailabilities, interval) ==
    LET firstUser == userAvailabilities[1]
        folded == foldUsers(userAvailabilities, 2,
                    [common |-> interval,
                     att |-> (firstUser.email :> "free"),
                     narrowed |-> FALSE])
        slot == meetingSlot(in, folded.common)
    IN  IF Len(userAvailabilities) > 1 /\ folded.common = interval THEN <<>>
        ELSE IF slot = <<>> THEN <<>>
        ELSE <<Candidate(slot[1].start, slot[1].end, folded.att,
                  calculateConfidence(folded.att, Len(userAvailabilities)))>>

\* Multi participant: the candidate (zero or one) of one seed interval.
seedCandidate(in, userAvailabilities, interval) ==
    LET firstUser == userAvailabilities[1]
        folded == foldUsers(userAvailabilities, 2,
                    [common |-> interval,
                     att |-> (firstUser.email :> "free"),
                     narrowed |-> FALSE])
        slot == meetingSlot(in, folded.common)
    IN  IF Len(userAvailabilities) > 1 /\ ~folded.narrowed THEN <<>>
        ELSE IF slot = <<>> THEN <<>>
        ELSE <<Candidate(slot[1].start, slot[1].end, folded.att,
                  calculateConfidence(folded.att, Len(userAvailabilities)))>>

RECURSIVE multiUserCandidates(_, _, _)
multiUserCandidates(in, userAvailabilities, k) ==
    IF k > Len(userAvailabilities[1].free) THEN <<>>
    ELSE seedCandidate(in, userAvailabilities, userAvailabilities[1].free[k])
             \o multiUserCandidates(in, userAvailabilities, k + 1)

\* The sorted candidate list of findIntersectingSlots, before slice().
rankedCandidates(in, userAvailabilities) ==
    IF Len(userAvailabilities) = 1
        THEN ArraySort("start", singleUserCandidates(in, userAvailabilities[1], 1))
    ELSE IF Len(userAvailabilities) = 0 \/ Len(userAvailabilities[1].free) = 0
        THEN <<>>
    ELSE ArraySort("ranked", multiUserCandidates(in, userAvailabilities, 1))

\* Mutant of topCandidates: slice(-maxCandidates), the last entries kept.
topCandidates_last(candidates, maxCandidates) ==
    SubSeq(candidates, Len(candidates) - Min(maxCandidates, Len(candidates)) + 1,
           Len(candidates))

\* candidates.slice(0, maxCandidates)
topCandidates(candidates, maxCandidates) == Slice(candidates, maxCandidates)

findIntersectingSlots(in, userAvailabilities) ==
    topCandidates(rankedCandidates(in, userAvailabilities), in.maxCandidates)

\* checkMinimumAttendance; minRequiredAttendees 0 stands for undefined
\* (both are falsy).
checkMinimumAttendance(slot, minRequiredAttendees) ==
    IF minRequiredAttendees = 0 THEN TRUE
    ELSE CountStatus(slot.attendeeAvailability, "free")
           + CountStatus(slot.attendeeAvailability, "tentative")
             >= minRequiredAttendees

\* Mutant of filterByMinimumAttendance: nothing is dropped.
filterByMinimumAttendance_none(candidates, minRequiredAttendees) == candidates

filterByMinimumAttendance(candidates, minRequiredAttendees) ==
    IF minRequiredAttendees = 0 THEN candidates
    ELSE SelectSeq(candidates,
             LAMBDA c : checkMinimumAttendance(c, minRequiredAttendees))

-----------------------------------------------------------------------------
(* scheduling/availability.ts : AvailabilityService *)

\* Hours that Asia/Dubai is ahead of UTC, the one offset the code hardcodes.
DubaiOffsetHours == 4

\* formatTimeForOutput on a schedule item's dateTime ("....0000000", no
\* zone suffix): parseGraphAPITime reads the clock digits as local time of the
\* zone, so for Asia/Dubai the instant moves back by the offset; for UTC the
\* instant is kept.
formatTimeForOutput(t, timezone) ==
    IF timezone = "Asia/Dubai" THEN t - DubaiOffsetHours * TicksPerHour ELSE t

\* convertUTCToTimezone: the wall clock of the zone with the zone's offset
\* appended ("...T13:00:00+04:00").
TimezoneOffset(timezone) ==
    IF timezone = "Asia/Dubai" THEN DubaiOffsetHours * TicksPerHour ELSE 0

convertUTCToTimezone(utcDate, timezone) ==
    [clock |-> utcDate + TimezoneOffset(timezone),
     offset |-> TimezoneOffset(timezone)]

\* new Date(string) of a string that carries an offset.
NewDate(s) == s.clock - s.offset

\* The calendar reading of tick 0: a Monday, 08:00 UTC.
Epoch == [day |-> 1, minuteOfDay |-> 8 * MinutesPerHour]

\* Minutes after midnight of an "HH:MM" string of the working hours.
ClockMinutes(hhmm) ==
    CASE hhmm = "08:00" -> 8 * MinutesPerHour
      [] hhmm = "09:00" -> 9 * MinutesPerHour
      [] hhmm = "16:00" -> 16 * MinutesPerHour
      [] hhmm = "17:00" -> 17 * MinutesPerHour

\* isWithinWorkingHours: the day of the week of the instant in the zone is a
\* working day and its HH:MM lies in [start, end], both included.
isWithinWorkingHours(date, workingHours, timezone) ==
    LET localMinutes == Epoch.minuteOfDay
                          + ((date + TimezoneOffset(timezone)) \div TicksPerMinute)
        dayOfWeek == (Epoch.day + (localMinutes \div (24 * MinutesPerHour))) % 7
        timeString == localMinutes % (24 * MinutesPerHour)
    IN  /\ dayOfWeek \in workingHours.days
        /\ timeString >= ClockMinutes(workingHours.start)
        /\ timeString <= ClockMinutes(workingHours.end)

\* clipToWorkingHours: the interval itself when both its ends are within
\* working hours, null otherwise.
clipToWorkingHours(interval, workingHours, timezone) ==
    IF ~isWithinWorkingHours(interval.start, workingHours, timezone)
          \/ ~isWithinWorkingHours(interval.end, workingHours, timezone)
        THEN NoInterval
        ELSE interval

DefaultWorkingHours == [start |-> "09:00", end |-> "17:00", days |-> {1, 2, 3, 4, 5}]
MailboxWorkingHours == [start |-> "08:00", end |-> "16:00", days |-> {0, 1, 2, 3, 4}]

\* Mutant of getWorkingHours: no default, null when the mailbox settings
\* give no working hours.
getWorkingHours_noDefault(r) ==
    IF r.mailbox = "hours" THEN MailboxWorkingHours
    ELSE [start |-> "null", end |-> "null", days |-> {}]

\* getWorkingHours: the mailbox settings' hours when the lookup succeeds and
\* carries them, the default otherwise; it never throws.
getWorkingHours(r) ==
    IF r.mailbox = "hours" THEN MailboxWorkingHours ELSE DefaultWorkingHours

\* getFreeBusy: the schedule items, or on failure of getSchedule the
\* calendar view's events; both mapped through formatTimeForOutput.  The
\* caller has checked that one of the two requests succeeded.
getFreeBusy(r, timezone) ==
    LET items == IF r.schedule = "novalue" THEN <<>> ELSE r.periods
    IN  [i \in DOMAIN items |->
            [start |-> formatTimeForOutput(items[i].start, timezone),
             end |-> formatTimeForOutput(items[i].end, timezone),
             availability |-> items[i].availability]]

getFreeBusyThrows(r) == r.schedule = "fail" /\ r.view = "fail"

overlapsWindow(item, windowStart, windowEnd) ==
    item.start < windowEnd /\ item.end > windowStart

\* The rounded gap [from, to) as a list of zero or one free slot.
roundedGap(from, to, granularityMinutes, timezone) ==
    LET freeStart == roundToInterval(from, granularityMinutes)
        freeEnd == roundToInterval(to, granularityMinutes)
    IN  IF freeStart < freeEnd
        THEN <<Interval(NewDate(convertUTCToTimezone(freeStart, timezone)),
                        NewDate(convertUTCToTimezone(freeEnd, timezone)))>>
        ELSE <<>>

RECURSIVE gapsBetween(_, _, _, _)
gapsBetween(sortedRelevant, i, granularityMinutes, timezone) ==
    IF i >= Len(sortedRelevant) THEN <<>>
    ELSE (IF sortedRelevant[i].end < sortedRelevant[i + 1].start
              THEN roundedGap(sortedRelevant[i].end, sortedRelevant[i + 1].start,
                              granularityMinutes, timezone)
              ELSE <<>>)
         \o gapsBetween(sortedRelevant, i + 1, granularityMinutes, timezone)

\* processFreeBusy: busy = the busy/tentative periods that overlap the
\* window, clipped to it; free = the gaps before the first, between
\* consecutive and after the last overlapping period, rounded; the whole
\* window when no period overlaps it.  workHoursOnly, workingHours and the
\* granularity of an empty window are not read.
processFreeBusy(freeBusy, windowStart, windowEnd, granularityMinutes, workHoursOnly, workingHours, timezone) ==
    LET sorted == ArraySort("start", freeBusy)
        windowStartStr == convertUTCToTimezone(windowStart, timezone)
        windowEndStr == convertUTCToTimezone(windowEnd, timezone)
        windowStartDate == NewDate(windowStartStr)
        windowEndDate == NewDate(windowEndStr)
        slot(s, e) == Interval(NewDate(convertUTCToTimezone(s, timezone)),
                               NewDate(convertUTCToTimezone(e, timezone)))
        relevantBusyPeriods ==
            SelectSeq(sorted,
                LAMBDA item : overlapsWindow(item, windowStartDate, windowEndDate))
        marked == SelectSeq(relevantBusyPeriods,
                      LAMBDA item : item.availability \in {"busy", "tentative"})
        busy == [i \in DOMAIN marked |->
                    slot(Max(marked[i].start, windowStartDate),
                         Min(marked[i].end, windowEndDate))]
        sortedRelevant == ArraySort("start", relevantBusyPeriods)
        n == Len(sortedRelevant)
        before == IF sortedRelevant[1].start > windowStartDate
                      THEN roundedGap(windowStartDate, sortedRelevant[1].start,
                                      granularityMinutes, timezone)
                      ELSE <<>>
        after == IF sortedRelevant[n].end < windowEndDate
                     THEN roundedGap(sortedRelevant[n].end, windowEndDate,
                                     granularityMinutes, timezone)
                     ELSE <<>>
        free == IF n = 0
                THEN <<Interval(NewDate(windowStartStr), NewDate(windowEndStr))>>
                ELSE before
                       \o gapsBetween(sortedRelevant, 1, granularityMinutes, timezone)
                       \o after
    IN  [busy |-> busy, free |-> free]

\* workingHours: null, written as a record so that it compares with one.
NullWorkingHours == [start |-> "null", end |-> "null", days |-> {}]

\* The entry pushed for a participant whose requests failed.
EmptyAvailability(email) ==
    [email |-> email, workingHours |-> NullWorkingHours, busy |-> <<>>,
     free |-> <<>>]

\* getUserAvailability, given what the provider answers (r).
getUserAvailability(email, r, in) ==
    LET workingHours == getWorkingHours(r)
        processed == processFreeBusy(getFreeBusy(r, in.timeZone),
                         in.windowStart, in.windowEnd, in.granularityMinutes,
                         in.workHoursOnly, workingHours, in.timeZone)
    IN  [email |-> email, workingHours |-> workingHours,
         busy |-> processed.busy, free |-> processed.free]

userAvailabilityThrows(r) == ~r.client \/ getFreeBusyThrows(r)

\* Mutant of availabilityEntry: the failure of one participant leaves
\* the entry out instead of pushing the empty one.
availabilityEntry_skip(email, r, in) ==
    IF userAvailabilityThrows(r) THEN <<>>
    ELSE <<getUserAvailability(email, r, in)>>

\* One pass of the loop of getAvailability: the try/catch around
\* getUserAvailability, as the list of entries pushed.
availabilityEntry(email, r, in) ==
    IF userAvailabilityThrows(r) THEN <<EmptyAvailability(email)>>
    ELSE <<getUserAvailability(email, r, in)>>

\* The provider requests one pass issues, in order.
Call(api, email) == [api |-> api, email |-> email]

requestsOf(email, r) ==
    IF ~r.client THEN <<>>
    ELSE <<Call("mailboxSettings", email), Call("getSchedule", email)>>
         \o (IF r.schedule = "fail" THEN <<Call("calendarView", email)>> ELSE <<>>)

\* validateAvailabilityInput, on the fields the model keeps.
validateAvailabilityInput(in) ==
    /\ Len(in.participants) > 0
    /\ in.windowStart < in.windowEnd
    /\ in.granularityMinutes >= 1 /\ in.granularityMinutes <= 1440

-----------------------------------------------------------------------------
(* scheduling/find.ts : FindMeetingTimesService *)

\* A validation that collects no error for an empty list of participants.
validateFindMeetingTimesInput_noParticipants(in) ==
    /\ \A i \in DOMAIN in.participants : in.participants[i] >= 1
    /\ in.durationMinutes >= 1 /\ in.durationMinutes <= 1440
    /\ in.windowStartFormat # "bare"
    /\ in.windowEndFormat # "bare"
    /\ in.windowStart < in.windowEnd
    /\ in.windowEnd - in.windowStart <= 30 * 24 * TicksPerHour
    /\ in.maxCandidates = 0 \/ (in.maxCandidates >= 1 /\ in.maxCandidates <= 20)
    /\ in.bufferBeforeMinutes = 0
          \/ (in.bufferBeforeMinutes >= 0 /\ in.bufferBeforeMinutes <= 120)
    /\ in.bufferAfterMinutes = 0
          \/ (in.bufferAfterMinutes >= 0 /\ in.bufferAfterMinutes <= 120)
    /\ in.minRequiredAttendees = 0
          \/ (in.minRequiredAttendees >= 1
                /\ in.minRequiredAttendees <= Len(in.participants))

\* validateFindMeetingTimesInput: TRUE when no error is collected.  Addresses
\* are numbered from 1; a number below 1 stands for a string the e-mail
\* pattern rejects.  A format of "bare" is a timestamp that neither ends
\* with ".000Z" nor holds a "+" or a "-".  0 stands for an optional field
\* left out.
validateFindMeetingTimesInput(in) ==
    /\ Len(in.participants) > 0
    /\ \A i \in DOMAIN in.participants : in.participants[i] >= 1
    /\ in.durationMinutes >= 1 /\ in.durationMinutes <= 1440
    /\ in.windowStartFormat # "bare"
    /\ in.windowEndFormat # "bare"
    /\ in.windowStart < in.windowEnd
    /\ in.windowEnd - in.windowStart <= 30 * 24 * TicksPerHour
    /\ in.maxCandidates = 0 \/ (in.maxCandidates >= 1 /\ in.maxCandidates <= 20)
    /\ in.bufferBeforeMinutes = 0
          \/ (in.bufferBeforeMinutes >= 0 /\ in.bufferBeforeMinutes <= 120)
    /\ in.bufferAfterMinutes = 0
          \/ (in.bufferAfterMinutes >= 0 /\ in.bufferAfterMinutes <= 120)
    /\ in.minRequiredAttendees = 0
          \/ (in.minRequiredAttendees >= 1
                /\ in.minRequiredAttendees <= Len(in.participants))

\* executeWithRetry: the default number of attempts.
MaxRetries == 3

\* The message of an error thrown by the operation, by what the retry logic
\* reads in it: the status codes it contains, and the seconds of a
\* "Retry-After: n" in it (NoRetryAfter when there is none).
NoRetryAfter == 0 - 1

GraphError(codes, retryAfter) == [codes |-> codes, retryAfter |-> retryAfter]

retryableErrors == {"429", "500", "502", "503", "504"}

\* shouldRetry: the error message carries 429, 500, 502, 503 or 504.
shouldRetry(error) == error.codes \cap retryableErrors # {}

\* 2 to the power n
RECURSIVE Pow2(_)
Pow2(n) == IF n <= 0 THEN 1 ELSE 2 * Pow2(n - 1)

\* calculateRetryDelay, in milliseconds: the base is one second, or the
\* Retry-After of a 429; it doubles with every attempt, up to 30 seconds.
calculateRetryDelay(attemptNumber, error) ==
    LET baseDelay == IF "429" \in error.codes /\ error.retryAfter # NoRetryAfter
                         THEN error.retryAfter * 1000
                         ELSE 1000
        exponentialDelay == Pow2(attemptNumber - 1) * baseDelay
    IN  Min(exponentialDelay, 30000)

\* executeWithRetry after the attempt numbered attemptNumber threw: it sleeps
\* and tries again, or throws the error.
afterFailure(attemptNumber, maxRetries, error) ==
    IF attemptNumber = maxRetries THEN "threw"
    ELSE IF shouldRetry(error) THEN "sleeping"
    ELSE "threw"

\* The status kept for an attendee of a suggestion: busy and tentative are
\* kept, anything else reads as free.
suggestionStatus(availability) ==
    IF availability = "busy" THEN "busy"
    ELSE IF availability = "tentative" THEN "tentative"
    ELSE "free"

\* attendeeAvailability of one suggestion: a map keyed by address, a later
\* entry for the same address replacing an earlier one.
suggestionAttendees(attendees) ==
    [e \in {attendees[i].email : i \in DOMAIN attendees} |->
        LET last == CHOOSE i \in DOMAIN attendees :
                        /\ attendees[i].email = e
                        /\ \A j \in DOMAIN attendees :
                               attendees[j].email = e => j <= i
        IN  suggestionStatus(attendees[last].availability)]

\* The candidate made of one suggestion: confidence is the number of map
\* entries that are free or tentative over participants.length.
suggestionCandidate(in, suggestion) ==
    LET attendeeAvailability == suggestionAttendees(suggestion.attendees)
        availableCount == CountStatus(attendeeAvailability, "free")
                            + CountStatus(attendeeAvailability, "tentative")
        confidence == IF Len(in.participants) > 0
                          THEN [num |-> availableCount,
                                den |-> Len(in.participants)]
                          ELSE [num |-> 0, den |-> 1]
    IN  Candidate(suggestion.start, suggestion.end, attendeeAvailability,
                  confidence)

\* What tryGraphFindMeetingTimes returns for an answered request: the
\* candidates, or null when the answer holds no suggestion.
tryGraphResult(in, suggestions) ==
    IF Len(suggestions) > 0
        THEN [state |-> "result",
              candidates |-> [i \in DOMAIN suggestions |->
                                 suggestionCandidate(in, suggestions[i])]]
        ELSE [state |-> "null", candidates |-> <<>>]

GraphThrew == [state |-> "threw", candidates |-> <<>>]

\* Mutant of useGraphResult: a null result is returned as the native one.
useGraphResult_always(result) == result.state # "threw"

\* findMeetingTimes: the native result is returned when it is there and has
\* a candidate.
useGraphResult(result) ==
    result.state = "result" /\ Len(result.candidates) > 0

\* The input findMeetingTimesLocal hands to getAvailability.
availabilityInput(in) ==
    [participants |-> in.participants, windowStart |-> in.windowStart,
     windowEnd |-> in.windowEnd, granularityMinutes |-> 30,
     workHoursOnly |-> in.workHoursOnly, timeZone |-> in.timeZone]

\* Where findMeetingTimesLocal stands after getAvailability has validated
\* its input: in the loop over the participants, or failed.
enterLocal(in) ==
    IF validateAvailabilityInput(availabilityInput(in)) THEN "local" ELSE "failed"

\* Mutant of afterNativeFailure: the error of the native attempt is thrown on.
afterNativeFailure_rethrow(in) == "failed"

\* findMeetingTimes after the native attempt threw: the catch logs the error
\* and the fallback runs.
afterNativeFailure(in) == enterLocal(in)

\* Mutant of localCandidates: the minimum-attendance filter runs on the whole
\* ranked list, before it is cut to maxCandidates.
localCandidates_filterFirst(in, availabilityUsers) ==
    LET userAvailabilities ==
            [i \in DOMAIN availabilityUsers |->
                [email |-> availabilityUsers[i].email,
                 free |-> availabilityUsers[i].free,
                 busy |-> availabilityUsers[i].busy]]
    IN  topCandidates(
            filterByMinimumAttendance(rankedCandidates(in, userAvailabilities),
                                      in.minRequiredAttendees),
            in.maxCandidates)

\* findMeetingTimesLocal after getAvailability: intersection, then the
\* minimum-attendance filter.
localCandidates(in, availabilityUsers) ==
    LET userAvailabilities ==
            [i \in DOMAIN availabilityUsers |->
                [email |-> availabilityUsers[i].email,
                 free |-> availabilityUsers[i].free,
                 busy |-> availabilityUsers[i].busy]]
    IN  filterByMinimumAttendance(
            findIntersectingSlots(in, userAvailabilities),
            in.minRequiredAttendees)

-----------------------------------------------------------------------------
(* Inputs of the intersection engine *)

\* The instants free slots are built from: whole minutes, and one instant
\* a tick before a whole minute (a slot boundary that carries seconds).
Instants ==
    {0, 1 * TicksPerMinute, 3 * TicksPerMinute - 1, 3 * TicksPerMinute,
     4 * TicksPerMinute}

RECURSIVE SortedLists(_, _)
\* The lists of at most n intervals over Instants, each starting at or after
\* `from`, in ascending order and pairwise disjoint.
SortedLists(n, from) ==
    IF n = 0 THEN {<<>>}
    ELSE {<<>>} \cup
         UNION {{<<Interval(s, e)>> \o rest : rest \in SortedLists(n - 1, e)} :
                  <<s, e>> \in {p \in Instants \X Instants :
                                  p[1] >= from /\ p[1] < p[2]}}

FreeLists(n) == SortedLists(n, 0)

WholeWindow == <<Interval(0, 4 * TicksPerMinute)>>

User(email, free) == [email |-> email, free |-> free, busy |-> <<>>]

\* Participant lists: 1, 2 or 3 participants with any free lists, and a
\* large meeting of ManyAttendees in which all but the first and the last two
\* are free for the whole window.
ManyAttendees == 11

UserLists ==
    {<<User(1, f1)>> : f1 \in FreeLists(MaxSeeds)}
    \cup {<<User(1, f1), User(2, f2)>> :
            f1 \in FreeLists(MaxSeeds), f2 \in FreeLists(MaxFree + 1)}
    \cup {<<User(1, f1), User(2, f2), User(3, f3)>> :
            f1 \in FreeLists(MaxFree), f2 \in FreeLists(MaxFree + 1),
            f3 \in FreeLists(1)}
    \cup {[i \in 1..ManyAttendees |->
              IF i = 1 THEN User(1, f1)
              ELSE IF i = ManyAttendees - 1 THEN User(i, f2)
              ELSE IF i = ManyAttendees THEN User(i, f3)
              ELSE User(i, WholeWindow)] :
            f1 \in {f \in FreeLists(MaxSeeds) : Len(f) = MaxSeeds},
            f2 \in FreeLists(1), f3 \in FreeLists(1)}

Buffers == {<<0, 0>>, <<1, 0>>, <<1, 1>>}

SlotInputs ==
    [durationMinutes : 1..2, maxCandidates : 1..MaxSeeds,
     bufferBeforeMinutes : {0, 1}, bufferAfterMinutes : {0, 1},
     minRequiredAttendees : {0}]

-----------------------------------------------------------------------------
(* The intersection engine as a specification: Init draws the arguments of *)
(* findIntersectingSlots, IntersectStep applies it, FilterStep applies     *)
(* filterByMinimumAttendance to what it returned.                          *)

InitIntersect ==
    /\ pc = "ready"
    /\ input \in {i \in SlotInputs :
                    <<i.bufferBeforeMinutes, i.bufferAfterMinutes>> \in Buffers}
    /\ users \in UserLists
    /\ responses = <<>>
    /\ calls = <<>>
    /\ ranked = <<>>
    /\ out = [source |-> "none", candidates |-> <<>>]
    /\ attempt = 1
    /\ graphResult = NoGraphResult

IntersectStep ==
    /\ pc = "ready"
    /\ ranked' = rankedCandidates(input, users)
    /\ out' = [source |-> "local_intersection",
               candidates |-> findIntersectingSlots(input, users)]
    /\ pc' = "sliced"
    /\ UNCHANGED <<input, users, responses, calls, attempt, graphResult>>

\* The pipeline of findMeetingTimesLocal on the same arguments, for a
\* minRequiredAttendees k: the engine, then the minimum-attendance filter.
FilterStep ==
    /\ pc = "sliced"
    /\ \E k \in {0, 1, 2, Len(users)} :
          /\ input' = [input EXCEPT !.minRequiredAttendees = k]
          /\ out' = [out EXCEPT !.candidates = localCandidates(input', users)]
    /\ pc' = "filtered"
    /\ UNCHANGED <<users, responses, calls, ranked, attempt, graphResult>>

NextIntersect == IntersectStep \/ FilterStep

SpecIntersect == InitIntersect /\ [][NextIntersect]_vars

-----------------------------------------------------------------------------
(* Inputs of the availability service and answers of the provider *)

Minutes(m) == m * TicksPerMinute

\* Instants of provider periods and window boundaries, as minutes.
PeriodMinutes == {0, 20, 45, 60, 90}
Windows == {<<0, 90>>, <<20, 60>>}
Granularities == {15, 30, 60}
TimeZones == {"UTC", "Asia/Dubai"}

\* The provider's clock reading for an instant: schedule items carry the
\* clock digits of the zone the request is served in.
ProviderClock(t, timezone) ==
    IF timezone = "Asia/Dubai" THEN t + DubaiOffsetHours * TicksPerHour ELSE t

Period(s, e, a) == [start |-> Minutes(s), end |-> Minutes(e), availability |-> a]

PeriodsOver(minutes) ==
    {Period(p[1], p[2], a) :
        p \in {q \in minutes \X minutes : q[1] < q[2]},
        a \in {"busy", "tentative", "free"}}

RECURSIVE ListsOver(_, _)
\* The lists of at most n elements of S, in any order, repeats allowed.
ListsOver(S, n) ==
    IF n = 0 THEN {<<>>}
    ELSE {<<>>} \cup {<<x>> \o rest : x \in S, rest \in ListsOver(S, n - 1)}

Response(client, mailbox, schedule, view, periods) ==
    [client |-> client, mailbox |-> mailbox, schedule |-> schedule,
     view |-> view, periods |-> periods]

\* A few answers of every kind: the client or both requests failing, a
\* schedule without items, mailbox settings without working hours, and short period lists served by getSchedule or,
\* after its failure, by calendarView, with and without mailbox settings.
FewResponses ==
    {Response(FALSE, "fail", "fail", "fail", <<>>),
     Response(TRUE, "fail", "fail", "fail", <<>>),
     Response(TRUE, "hours", "novalue", "unused", <<>>),
     Response(TRUE, "nohours", "ok", "unused", <<>>)}
    \cup {Response(TRUE, m, v[1], v[2], l) :
            m \in {"hours", "fail"},
            v \in {<<"ok", "unused">>, <<"fail", "ok">>},
            l \in ListsOver(PeriodsOver({0, 45, 90}), 1)}

\* Longer lists of periods, unsorted, overlapping and nested ones included.
RichResponses ==
    {Response(TRUE, "hours", "ok", "unused", l) :
        l \in ListsOver({x \in PeriodsOver(PeriodMinutes) :
                            x.availability # "tentative"}, MaxPeriods)}

\* The answer as the provider words it for a request served in `timezone`.
Served(r, timezone) ==
    [r EXCEPT !.periods =
        [i \in DOMAIN @ |->
            [@[i] EXCEPT !.start = ProviderClock(@, timezone),
                         !.end = ProviderClock(@, timezone)]]]

AvailInputs ==
    {[participants |-> ps, windowStart |-> Minutes(w[1]), windowEnd |-> Minutes(w[2]),
      granularityMinutes |-> g, workHoursOnly |-> wh, timeZone |-> tz,
      durationMinutes |-> 30, maxCandidates |-> 1, bufferBeforeMinutes |-> 0,
      bufferAfterMinutes |-> 0, minRequiredAttendees |-> 0] :
        ps \in {<<1>>, <<1, 2>>}, w \in Windows, g \in Granularities,
        tz \in TimeZones, wh \in BOOLEAN}

-----------------------------------------------------------------------------
(* getAvailability as a specification: one step per participant, each      *)
(* step the whole try/catch around getUserAvailability with the provider's *)
(* answer drawn, then the return.                                          *)

InitAvail ==
    /\ pc = "avail"
    /\ input \in AvailInputs
    /\ users = <<>>
    /\ responses = <<>>
    /\ calls = <<>>
    /\ ranked = <<>>
    /\ out = [source |-> "none", candidates |-> <<>>]
    /\ attempt = 1
    /\ graphResult = NoGraphResult

\* The loop body for the next participant, the provider answering r.
participantStep(r, in) ==
    LET email == in.participants[Len(responses) + 1]
    IN  /\ users' = users \o availabilityEntry(email, r, in)
        /\ responses' = Append(responses, r)
        /\ calls' = calls \o requestsOf(email, r)

AvailStep ==
    /\ pc = "avail"
    /\ Len(responses) < Len(input.participants)
    /\ \E r \in (IF Len(input.participants) = 1 THEN RichResponses ELSE {})
                   \cup FewResponses :
           participantStep(Served(r, input.timeZone), input)
    /\ UNCHANGED <<pc, input, ranked, out, attempt, graphResult>>

AvailReturn ==
    /\ pc = "avail"
    /\ Len(responses) = Len(input.participants)
    /\ out' = [source |-> "availability", candidates |-> <<>>,
               timeZone |-> input.timeZone, users |-> users]
    /\ pc' = "returned"
    /\ UNCHANGED <<input, users, responses, calls, ranked, attempt, graphResult>>

NextAvail == AvailStep \/ AvailReturn

SpecAvail == InitAvail /\ [][NextAvail]_vars

-----------------------------------------------------------------------------
(* Requests to findMeetingTimes and answers of the provider *)

\* Requests, valid and invalid ones: no participant, a malformed address,
\* a duration of 0 or above a day, an inverted window, a bare timestamp, too many
\* candidates, more required attendees than participants.
FindInputs ==
    {[participants |-> ps, durationMinutes |-> d,
      windowStart |-> Minutes(w[1]), windowEnd |-> Minutes(w[2]),
      windowStartFormat |-> f[1], windowEndFormat |-> f[2],
      maxCandidates |-> m, bufferBeforeMinutes |-> 0, bufferAfterMinutes |-> 0,
      workHoursOnly |-> FALSE, minRequiredAttendees |-> k, timeZone |-> "UTC"] :
        ps \in {<<>>, <<0 - 1>>, <<1>>, <<1, 2>>, <<1, 2, 3>>},
        d \in {0, 30, 1441}, w \in {<<0, 90>>, <<90, 0>>},
        f \in {<<"offset", "offset">>, <<"bare", "offset">>, <<"utc", "bare">>},
        m \in {1, 2, 21}, k \in 0..3}

Attendee(email, availability) == [email |-> email, availability |-> availability]

\* attendeeAvailability lists of a suggestion: missing, the participants
\* with the statuses the provider knows ("unknown" is one the code has no
\* case for), an address listed twice, and an address that is not among
\* the participants.
AttendeeLists ==
    {<<>>,
     <<Attendee(1, "free")>>,
     <<Attendee(1, "busy")>>,
     <<Attendee(1, "free"), Attendee(1, "busy")>>,
     <<Attendee(1, "unknown"), Attendee(2, "busy")>>,
     <<Attendee(1, "free"), Attendee(2, "tentative")>>,
     <<Attendee(1, "tentative"), Attendee(2, "busy"), Attendee(3, "busy")>>,
     <<Attendee(1, "free"), Attendee(2, "free"), Attendee(3, "free"),
       Attendee(4, "free")>>}

\* meetingTimeSuggestions of an answer: none, one or two suggestions.
SuggestionLists ==
    {<<>>}
    \cup {<<[start |-> Minutes(0), end |-> Minutes(30), attendees |-> a]>> :
            a \in AttendeeLists}
    \cup {<<[start |-> Minutes(0), end |-> Minutes(30), attendees |-> a],
            [start |-> Minutes(30), end |-> Minutes(60), attendees |-> b]>> :
            a \in AttendeeLists, b \in AttendeeLists}

\* What the provider answers one participant of the fallback: nothing that
\* works, an empty schedule, or one period.
LocalResponses ==
    {Response(FALSE, "fail", "fail", "fail", <<>>),
     Response(TRUE, "fail", "fail", "fail", <<>>),
     Response(TRUE, "hours", "ok", "unused", <<>>),
     Response(TRUE, "hours", "ok", "unused", <<Period(0, 90, "busy")>>),
     Response(TRUE, "fail", "fail", "ok", <<Period(0, 45, "busy")>>),
     Response(TRUE, "hours", "ok", "unused", <<Period(45, 90, "tentative")>>)}

-----------------------------------------------------------------------------
(* findMeetingTimes as a specification.  The steps are the stretches of   *)
(* the handler between two awaits; the provider's answer to the awaited    *)
(* request is drawn by the step that resumes.                              *)

Init ==
    /\ pc = "start"
    /\ input \in FindInputs
    /\ users = <<>>
    /\ responses = <<>>
    /\ calls = <<>>
    /\ ranked = <<>>
    /\ out = [source |-> "none", candidates |-> <<>>]
    /\ attempt = 1
    /\ graphResult = NoGraphResult

\* validateFindMeetingTimesInput throws, or tryGraphFindMeetingTimes starts
\* and awaits getClient.
Validate ==
    /\ pc = "start"
    /\ IF validateFindMeetingTimesInput(input)
           THEN pc' = "client" /\ out' = out
           ELSE /\ pc' = "failed"
                /\ out' = [source |-> "validation_error", candidates |-> <<>>]
    /\ UNCHANGED <<input, users, responses, calls, ranked, attempt, graphResult>>

\* getClient resolves and the first attempt is sent, or it rejects and the
\* catch of findMeetingTimes starts the fallback.
ClientAnswer ==
    /\ pc = "client"
    /\ \E ok \in BOOLEAN :
          IF ok
              THEN /\ pc' = "native"
                   /\ calls' = Append(calls, Call("findMeetingTimes", 0))
                   /\ graphResult' = graphResult
              ELSE /\ pc' = afterNativeFailure(input)
                   /\ calls' = calls
                   /\ graphResult' = GraphThrew
    /\ UNCHANGED <<input, users, responses, ranked, out, attempt>>

\* The provider answers the attempt under way with suggestions: the native
\* result is returned, or the fallback starts when there is none.
NativeAnswer ==
    /\ pc = "native"
    /\ \E suggestions \in SuggestionLists :
          LET result == tryGraphResult(input, suggestions)
          IN  /\ graphResult' = result
              /\ IF useGraphResult(result)
                     THEN /\ out' = [source |-> "graph_findMeetingTimes",
                                     candidates |-> result.candidates]
                          /\ pc' = "done"
                     ELSE /\ out' = out
                          /\ pc' = enterLocal(input)
    /\ UNCHANGED <<input, users, responses, calls, ranked, attempt>>

\* The provider answers the attempt under way with an error: the request is
\* sent again after a sleep, or executeWithRetry throws and the fallback
\* starts.
NativeError ==
    /\ pc = "native"
    /\ \E error \in {GraphError({"503"}, NoRetryAfter),
                     GraphError({"404"}, NoRetryAfter)} :
          IF attempt < MaxRetries /\ shouldRetry(error)
              THEN /\ attempt' = attempt + 1
                   /\ calls' = Append(calls, Call("findMeetingTimes", 0))
                   /\ UNCHANGED <<pc, graphResult>>
              ELSE /\ pc' = afterNativeFailure(input)
                   /\ graphResult' = GraphThrew
                   /\ UNCHANGED <<attempt, calls>>
    /\ UNCHANGED <<input, users, responses, ranked, out>>

\* The provider never answers the attempt under way: the await of
\* executeWithRetry has no timer beside it, the handler stays suspended.
NativeSilent ==
    /\ pc = "native"
    /\ pc' = "suspended"
    /\ UNCHANGED <<input, users, responses, calls, ranked, out, attempt,
                   graphResult>>

\* getAvailability: the loop body for the next participant.
LocalParticipant ==
    /\ pc = "local"
    /\ Len(responses) < Len(input.participants)
    /\ \E r \in LocalResponses :
          participantStep(Served(r, input.timeZone), availabilityInput(input))
    /\ UNCHANGED <<pc, input, ranked, out, attempt, graphResult>>

\* The provider never answers a request made for the next participant.
LocalSilent ==
    /\ pc = "local"
    /\ Len(responses) < Len(input.participants)
    /\ calls' = calls \o <<Call("mailboxSettings",
                                input.participants[Len(responses) + 1])>>
    /\ pc' = "suspended"
    /\ UNCHANGED <<input, users, responses, ranked, out, attempt, graphResult>>

\* getAvailability has returned: intersection, filter, return.
LocalReturn ==
    /\ pc = "local"
    /\ Len(responses) = Len(input.participants)
    /\ ranked' = rankedCandidates(input, users)
    /\ out' = [source |-> "local_intersection",
               candidates |-> localCandidates(input, users)]
    /\ pc' = "done"
    /\ UNCHANGED <<input, users, responses, calls, attempt, graphResult>>

Next ==
    \/ Validate
    \/ ClientAnswer
    \/ NativeAnswer
    \/ NativeError
    \/ NativeSilent
    \/ LocalParticipant
    \/ LocalSilent
    \/ LocalReturn

Spec == Init /\ [][Next]_vars

\* Every step that can be taken is taken eventually: the runtime resumes a
\* handler whose awaited promise has settled.
FairSpec == Spec /\ WF_vars(Next)

-----------------------------------------------------------------------------
(* Properties of the intersection engine *)

Range(s) == {s[i] : i \in DOMAIN s}

HasBuffers(in) == in.bufferBeforeMinutes # 0 \/ in.bufferAfterMinutes # 0

\* C6: every candidate returned by findIntersectingSlots lasts exactly
\* durationMinutes when a buffer is nonzero, and at least durationMinutes
\* when both buffers are zero.
C6_DurationInvariant ==
    pc = "sliced" =>
        \A c \in Range(out.candidates) :
            IF HasBuffers(input)
                THEN c.end - c.start = input.durationMinutes * TicksPerMinute
                ELSE c.end - c.start >= input.durationMinutes * TicksPerMinute

\* A.confidence > B.confidence + 0.1
ConfExceedsByTenth(a, b) == 10 * (a.num * b.den - b.num * a.den) > a.den * b.den

\* C8: for any two returned candidates A before B, either A's confidence
\* exceeds B's by more than 0.1, or the two confidences are within 0.1 of
\* each other and A starts no later than B.
C8_MonotonicRanking ==
    pc = "sliced" =>
        \A i, j \in DOMAIN out.candidates :
            i < j =>
                LET A == out.candidates[i]
                    B == out.candidates[j]
                IN  \/ ConfExceedsByTenth(A, B)
                    \/ (~ConfDiffersMoreThanTenth(A, B) /\ A.start <= B.start)

\* The free slots of the single participant that can hold the meeting.
QualifyingSlots(in, user) ==
    {k \in DOMAIN user.free :
        LET d == getDurationMinutes(user.free[k].start, user.free[k].end)
        IN  d >= in.durationMinutes
            /\ (HasBuffers(in) =>
                  d - in.bufferBeforeMinutes - in.bufferAfterMinutes
                      >= in.durationMinutes)}

\* C10: findIntersectingSlots returns at most maxCandidates candidates, the
\* first maxCandidates entries of the ranked list; for a single participant
\* these are the earliest qualifying free slots, the later ones dropped.
C10_TopCandidates ==
    pc = "sliced" =>
        /\ Len(out.candidates) = Min(input.maxCandidates, Len(ranked))
        /\ \A i \in DOMAIN out.candidates : out.candidates[i] = ranked[i]
        /\ Len(users) = 1 =>
             LET q == QualifyingSlots(input, users[1])
                 startOf(k) == addMinutes(users[1].free[k].start,
                                          input.bufferBeforeMinutes)
                 kept == {k \in q : \E c \in Range(out.candidates) :
                                        c.start = startOf(k)}
             IN  /\ Len(out.candidates) = Min(input.maxCandidates, Cardinality(q))
                 /\ Cardinality(kept) = Len(out.candidates)
                 /\ \A k \in kept, d \in q \ kept : startOf(k) < startOf(d)

C10_Witness ==
    /\ pc = "sliced"
    /\ Len(users) = 1
    /\ Len(ranked) = 3
    /\ input.maxCandidates = 2
    /\ Len(out.candidates) = 2

\* The others of the participants all have exactly one free interval.
OthersHaveOneInterval == \A i \in 2..Len(users) : Len(users[i].free) = 1

\* The part of a seed interval that lies in the one free interval of every
\* other participant (empty when end <= start).
CommonOfAll(seed) ==
    LET starts == {seed.start} \cup {users[i].free[1].start : i \in 2..Len(users)}
        ends == {seed.end} \cup {users[i].free[1].end : i \in 2..Len(users)}
    IN  Interval(CHOOSE x \in starts : \A y \in starts : y <= x,
                 CHOOSE x \in ends : \A y \in ends : x <= y)

AllFree(c) == \A e \in DOMAIN c.attendeeAvailability : c.attendeeAvailability[e] = "free"

\* C11: several participants, no buffers: a common interval exactly as long
\* as durationMinutes gives a candidate that spans the whole common interval.
C11_ExactFitQualifies ==
    (pc = "sliced" /\ Len(users) >= 2 /\ ~HasBuffers(input)
        /\ OthersHaveOneInterval) =>
        \A k \in DOMAIN users[1].free :
            LET common == CommonOfAll(users[1].free[k])
            IN  common.end - common.start = input.durationMinutes * TicksPerMinute =>
                    \E c \in Range(ranked) :
                        c.start = common.start /\ c.end = common.end /\ AllFree(c)

C11_Witness ==
    /\ pc = "sliced"
    /\ Len(users) = 3
    /\ ~HasBuffers(input)
    /\ OthersHaveOneInterval
    /\ \E k \in DOMAIN users[1].free :
          LET common == CommonOfAll(users[1].free[k])
          IN  /\ common.end - common.start = input.durationMinutes * TicksPerMinute
              /\ input.durationMinutes = 2
              /\ \E c \in Range(out.candidates) :
                    c.start = common.start /\ c.end = common.end

\* Two participants, no buffers, one free interval each, the first one's
\* strictly around the second one's, which is exactly as long as
\* durationMinutes (09:00-12:00 and 10:00-11:00 for 60 minutes).
ExactFitInside ==
    /\ pc = "sliced"
    /\ Len(users) = 2
    /\ ~HasBuffers(input)
    /\ Len(users[1].free) = 1 /\ Len(users[2].free) = 1
    /\ users[1].free[1].start < users[2].free[1].start
    /\ users[2].free[1].end < users[1].free[1].end
    /\ users[2].free[1].end - users[2].free[1].start
          = input.durationMinutes * TicksPerMinute

\* C12: in that case findIntersectingSlots returns no candidate.
C12_ExactFitRejected == ExactFitInside => out.candidates = <<>>

\* C12, amended: in that case findIntersectingSlots returns one candidate,
\* the second participant's interval, both participants free.
C12_ExactFitReturned ==
    ExactFitInside =>
        /\ Len(out.candidates) = 1
        /\ out.candidates[1].start = users[2].free[1].start
        /\ out.candidates[1].end = users[2].free[1].end
        /\ out.candidates[1].attendeeAvailability
              = (users[1].email :> "free") @@ (users[2].email :> "free")
        /\ out.candidates[1].num = out.candidates[1].den

C12_Witness ==
    /\ ExactFitInside
    /\ input.durationMinutes = 2
    /\ input.maxCandidates = 1
    /\ Len(out.candidates) = 1

\* C13: several participants, a nonzero buffer: a common interval of length
\* L gives a candidate if and only if L - bufferBefore - bufferAfter >=
\* durationMinutes, and the candidate starts bufferBefore after the start of
\* the common interval and ends durationMinutes later.
C13_BufferedSlot ==
    (pc = "sliced" /\ Len(users) >= 2 /\ HasBuffers(input)
        /\ OthersHaveOneInterval) =>
        \A k \in DOMAIN users[1].free :
            LET common == CommonOfAll(users[1].free[k])
                L == common.end - common.start
                buffers == input.bufferBeforeMinutes + input.bufferAfterMinutes
                start == common.start + input.bufferBeforeMinutes * TicksPerMinute
                end == start + input.durationMinutes * TicksPerMinute
            IN  L > 0 =>
                  /\ (L - buffers * TicksPerMinute
                         >= input.durationMinutes * TicksPerMinute)
                        <=> (\E c \in Range(ranked) : c.start = start)
                  /\ \A c \in Range(ranked) : c.start = start => c.end = end

\* No free interval of another participant overlaps the seed.
OverlapsNoOther(seed) ==
    \A i \in 2..Len(users) : \A j \in DOMAIN users[i].free :
        ~intervalsOverlap(seed, users[i].free[j])

\* Every other participant has a free interval that covers the seed.
CoveredByOthers(seed) ==
    \A i \in 2..Len(users) : \E j \in DOMAIN users[i].free :
        users[i].free[j].start <= seed.start /\ seed.end <= users[i].free[j].end

\* The candidates that start within the seed.
CandidatesOf(seed) ==
    {c \in Range(ranked) : seed.start <= c.start /\ c.start < seed.end}

\* C14: with two or more participants a seed interval of the first one that
\* no free interval of the others overlaps gives no candidate, so that the
\* result is empty when none of the seeds is overlapped; a seed that the
\* others' free intervals cover entirely, an identical interval included,
\* is kept: it gives the candidate a single participant would get from it.
C14_SeedDiscarded ==
    (pc = "sliced" /\ Len(users) >= 2) =>
        /\ \A k \in DOMAIN users[1].free :
              LET seed == users[1].free[k]
              IN  /\ OverlapsNoOther(seed) => CandidatesOf(seed) = {}
                  /\ (CoveredByOthers(seed) /\ meetingSlot(input, seed) # <<>>) =>
                        \E c \in CandidatesOf(seed) :
                            /\ Interval(c.start, c.end) = meetingSlot(input, seed)[1]
                            /\ AllFree(c)
        /\ (\A k \in DOMAIN users[1].free : OverlapsNoOther(users[1].free[k])) =>
              out.candidates = <<>>

C14_Witness ==
    /\ pc = "sliced"
    /\ Len(users) = 2
    /\ Len(users[1].free) = 2
    /\ OverlapsNoOther(users[1].free[1])
    /\ users[2].free = <<users[1].free[2]>>
    /\ Len(out.candidates) = 1
    /\ out.candidates[1].start >= users[1].free[2].start

\* Some interval long enough for the meeting and its buffers lies in a free
\* interval of every participant.
AllFreeTogether ==
    \E k \in DOMAIN users[1].free :
        \E s \in Instants, e \in Instants :
            /\ users[1].free[k].start <= s /\ e <= users[1].free[k].end
            /\ e - s >= (input.durationMinutes + input.bufferBeforeMinutes
                           + input.bufferAfterMinutes) * TicksPerMinute
            /\ \A i \in 2..Len(users) : \E j \in DOMAIN users[i].free :
                  users[i].free[j].start <= s /\ e <= users[i].free[j].end

\* C15: when all participants are free together for durationMinutes plus
\* the buffers, and maxCandidates is at least the number of free intervals
\* of the first participant, findIntersectingSlots returns a candidate in
\* which every participant is free, with confidence 1.
C15_CommonSlotFound ==
    (pc = "sliced" /\ Len(users) >= 2 /\ AllFreeTogether
        /\ input.maxCandidates >= Len(users[1].free)) =>
        \E c \in Range(out.candidates) :
            /\ DOMAIN c.attendeeAvailability = {users[i].email : i \in DOMAIN users}
            /\ AllFree(c)
            /\ c.num = c.den

\* The participant list with participants i and j exchanged.
Swap(us, i, j) ==
    [k \in DOMAIN us |-> IF k = i THEN us[j] ELSE IF k = j THEN us[i] ELSE us[k]]

\* The (start, end, confidence) triples of a candidate list.
Triples(cs) == {<<cs[k].start, cs[k].end, cs[k].num, cs[k].den>> : k \in DOMAIN cs}

\* C16: the set of (start, end, confidence) triples returned by
\* findIntersectingSlots is the same for every order of the participants
\* (every permutation is a product of exchanges of two participants).
C16_OrderIndependent ==
    pc = "sliced" =>
        \A i, j \in DOMAIN users :
            Triples(findIntersectingSlots(input, Swap(users, i, j)))
                = Triples(out.candidates)

-----------------------------------------------------------------------------
(* Properties of the availability service *)

\* The provider calls of a participant failed: no client, or getSchedule and
\* then calendarView both failed.
ProviderFailed(r) == r.client = FALSE \/ (r.schedule = "fail" /\ r.view = "fail")

\* C4: getAvailability returns one entry per requested participant, in input
\* order; a participant whose provider calls fail gets the empty entry, and
\* every other entry is what that participant's own answers give, whatever
\* happened to the others.
C4_OneEntryPerParticipant ==
    pc = "returned" =>
        /\ Len(out.users) = Len(input.participants)
        /\ \A i \in DOMAIN out.users :
              /\ out.users[i].email = input.participants[i]
              /\ ProviderFailed(responses[i]) =>
                    out.users[i] = [email |-> input.participants[i],
                                    workingHours |-> NullWorkingHours,
                                    busy |-> <<>>, free |-> <<>>]
              /\ ~ProviderFailed(responses[i]) =>
                    out.users[i] = getUserAvailability(input.participants[i],
                                                       responses[i], input)

C4_Witness ==
    /\ pc = "returned"
    /\ Len(input.participants) = 2
    /\ ProviderFailed(responses[1])
    /\ ~ProviderFailed(responses[2])
    /\ Len(out.users) = 2
    /\ out.users[2].busy # <<>>

\* How many of the intervals of list l hold instant t.
Covering(l, t) == Cardinality({i \in DOMAIN l : l[i].start <= t /\ t < l[i].end})

\* C5: with the working-hours restriction off, the busy and free intervals
\* of a participant never overlap and cover every instant of
\* [windowStart, windowEnd) exactly once, for any list of provider periods
\* and any granularity.
C5_Partition ==
    (pc = "returned" /\ ~input.workHoursOnly) =>
        \A i \in DOMAIN out.users :
            ~ProviderFailed(responses[i]) =>
                \A t \in input.windowStart..(input.windowEnd - 1) :
                    Covering(out.users[i].busy, t)
                        + Covering(out.users[i].free, t) = 1

-----------------------------------------------------------------------------
(* Properties of findMeetingTimes *)

AvailabilityApis == {"mailboxSettings", "getSchedule", "calendarView"}

AvailabilityRequested == \E i \in DOMAIN calls : calls[i].api \in AvailabilityApis

\* Attendees of a candidate whose status is free or tentative.
Available(c) ==
    CountStatus(c.attendeeAvailability, "free")
        + CountStatus(c.attendeeAvailability, "tentative")

\* C1: the native finder is tried first; the result has source
\* graph_findMeetingTimes exactly when the native attempt returned at least
\* one suggestion, and then no availability request was made; when the
\* attempt threw or returned no suggestion, availability was fetched for
\* every participant, and intersection and the minimum-attendance filter
\* gave the result, with source local_intersection.
C1_NativeFirst ==
    /\ AvailabilityRequested => graphResult.state \in {"threw", "null"}
    /\ pc = "local" => graphResult.state \in {"threw", "null"}
    /\ pc = "done" =>
         /\ out.source = "graph_findMeetingTimes"
              <=> (graphResult.state = "result" /\ Len(graphResult.candidates) >= 1)
         /\ out.source = "graph_findMeetingTimes" =>
              /\ ~AvailabilityRequested
              /\ responses = <<>>
              /\ out.candidates = graphResult.candidates
         /\ graphResult.state \in {"threw", "null"} =>
              /\ out.source = "local_intersection"
              /\ Len(users) = Len(input.participants)
              /\ [i \in DOMAIN users |-> users[i].email] = input.participants
              /\ out.candidates =
                   SelectSeq(findIntersectingSlots(input, users),
                       LAMBDA c : input.minRequiredAttendees = 0
                                    \/ Available(c) >= input.minRequiredAttendees)

C1_Witness ==
    /\ pc = "done"
    /\ out.source = "graph_findMeetingTimes"
    /\ Len(out.candidates) = 2
    /\ attempt = MaxRetries
    /\ ~AvailabilityRequested

\* C2: once validation has passed, findMeetingTimes does not end with an
\* error: a failed native attempt starts the fallback, a participant whose
\* requests fail is given the empty availability, and the call ends with a
\* result.
C2_NoProviderFailure ==
    /\ (pc # "start" /\ validateFindMeetingTimesInput(input)) => pc # "failed"
    /\ pc = "failed" => out.source = "validation_error"
    /\ pc = "done" =>
         /\ out.source \in {"graph_findMeetingTimes", "local_intersection"}
         /\ \A i \in DOMAIN responses :
               ProviderFailed(responses[i]) =>
                   (users[i].free = <<>> /\ users[i].busy = <<>>
                      /\ users[i].workingHours = NullWorkingHours)

C2_Witness ==
    /\ pc = "done"
    /\ graphResult.state = "threw"
    /\ Len(responses) = 2
    /\ \A i \in DOMAIN responses : ProviderFailed(responses[i])
    /\ out = [source |-> "local_intersection", candidates |-> <<>>]

\* C3: a request whose provider call is never answered still completes,
\* with a result or with an error.
C3_BoundedWait == <>(pc \in {"done", "failed"})

\* C7: every candidate returned by findMeetingTimes, native or local, has a
\* confidence between 0 and 1.
C7_ConfidenceRange ==
    pc = "done" =>
        \A i \in DOMAIN out.candidates :
            /\ 0 <= out.candidates[i].num
            /\ out.candidates[i].num <= out.candidates[i].den

\* C9: with minRequiredAttendees = k >= 1 every candidate of the final
\* output of findMeetingTimes has at least k attendees free or tentative;
\* with minRequiredAttendees left out every candidate passes.
C9_MinimumAttendance ==
    pc = "done" =>
        /\ input.minRequiredAttendees >= 1 =>
              \A i \in DOMAIN out.candidates :
                  Available(out.candidates[i]) >= input.minRequiredAttendees
        /\ (input.minRequiredAttendees = 0 /\ out.source = "local_intersection") =>
              out.candidates = Slice(ranked, input.maxCandidates)

\* C9, amended: the same, for a result whose source is local_intersection;
\* a ranked candidate with fewer than k attendees free or tentative is not
\* in the output.
C9_LocalMinimumAttendance ==
    (pc = "done" /\ out.source = "local_intersection") =>
        /\ input.minRequiredAttendees >= 1 =>
              /\ \A i \in DOMAIN out.candidates :
                    Available(out.candidates[i]) >= input.minRequiredAttendees
              /\ \A c \in Range(Slice(ranked, input.maxCandidates)) :
                    Available(c) >= input.minRequiredAttendees
                        <=> c \in Range(out.candidates)
        /\ input.minRequiredAttendees = 0 =>
              out.candidates = Slice(ranked, input.maxCandidates)

C9_Witness ==
    /\ pc = "done"
    /\ out.source = "local_intersection"
    /\ Len(input.participants) = 3
    /\ input.minRequiredAttendees = 3
    /\ \E c \in Range(Slice(ranked, input.maxCandidates)) :
          Available(c) = 2 /\ c \notin Range(out.candidates)

\* C17: with workHoursOnly set and the working hours of the participant
\* known, every free interval returned by getAvailability starts and ends
\* within working hours.
C17_FreeWithinWorkingHours ==
    (pc = "returned" /\ input.workHoursOnly) =>
        \A i \in DOMAIN out.users :
            out.users[i].workingHours # NullWorkingHours =>
                \A k \in DOMAIN out.users[i].free :
                    clipToWorkingHours(out.users[i].free[k],
                                       out.users[i].workingHours,
                                       input.timeZone) # NoInterval

\* An instant on the granularity grid: no seconds, and a minute of the hour
\* that is a multiple of the granularity.
OnGrid(date, granularityMinutes) ==
    /\ date % TicksPerMinute = 0
    /\ ((date \div TicksPerMinute) % MinutesPerHour) % granularityMinutes = 0

\* C18: both boundaries of every free interval returned by getAvailability
\* are rounded to the granularity, and no free interval is empty or reversed.
C18_FreeOnGrid ==
    pc = "returned" =>
        \A i \in DOMAIN out.users :
            \A k \in DOMAIN out.users[i].free :
                LET f == out.users[i].free[k]
                IN  /\ OnGrid(f.start, input.granularityMinutes)
                    /\ OnGrid(f.end, input.granularityMinutes)
                    /\ f.start < f.end

\* An interval that lies within the window of the request.
WithinWindow(interval) ==
    /\ input.windowStart <= interval.start
    /\ interval.end <= input.windowEnd

\* C19: every busy and every free interval returned by getAvailability lies
\* within [windowStart, windowEnd].
C19_IntervalsWithinWindow ==
    pc = "returned" =>
        \A i \in DOMAIN out.users :
            /\ \A k \in DOMAIN out.users[i].busy :
                   WithinWindow(out.users[i].busy[k])
            /\ \A k \in DOMAIN out.users[i].free :
                   WithinWindow(out.users[i].free[k])

\* An input the validation must reject: no participant, a duration outside
\* 1..1440, or a window that does not start before it ends.
Rejectable(in) ==
    \/ Len(in.participants) = 0
    \/ in.durationMinutes < 1
    \/ in.durationMinutes > 1440
    \/ ~(in.windowStart < in.windowEnd)

\* C20: for an input with no participant, a duration outside 1..1440 or a
\* window that does not start before it ends, findMeetingTimes fails with a
\* validation error, and neither acquires the client nor sends a native or an
\* availability request, before or after the rejection.
C20_RejectedBeforeProvider ==
    Rejectable(input) =>
        /\ pc \in {"start", "failed"}
        /\ pc = "failed" => out.source = "validation_error"
        /\ calls = <<>>
        /\ responses = <<>>
        /\ users = <<>>
        /\ graphResult = NoGraphResult

C20_Witness ==
    /\ pc = "failed"
    /\ input.participants = <<>>
    /\ input.durationMinutes = 30
    /\ input.windowStart < input.windowEnd
    /\ out.source = "validation_error"
    /\ calls = <<>>

\* C21: with one participant, findIntersectingSlots makes one candidate for
\* each free interval that is long enough for the meeting and its buffers, and
\* none for another: the participant is free in it, the confidence is 1, it
\* spans the whole interval when both buffers are zero, and the candidates
\* are in ascending order of start.  The result is the first maxCandidates of
\* them.
C21_SingleParticipant ==
    (pc = "sliced" /\ Len(users) = 1) =>
        LET user == users[1]
            q == QualifyingSlots(input, user)
            total == input.durationMinutes + input.bufferBeforeMinutes
                       + input.bufferAfterMinutes
            startOf(k) == addMinutes(user.free[k].start, input.bufferBeforeMinutes)
            endOf(k) == IF HasBuffers(input)
                            THEN addMinutes(startOf(k), input.durationMinutes)
                            ELSE user.free[k].end
            from(i) == {k \in q : /\ ranked[i].start = startOf(k)
                                  /\ ranked[i].end = endOf(k)}
        IN  /\ \A k \in DOMAIN user.free :
                  user.free[k].end - user.free[k].start >= total * TicksPerMinute
                      => k \in q
            /\ Len(ranked) = Cardinality(q)
            /\ \A k \in q : \E i \in DOMAIN ranked : k \in from(i)
            /\ \A i \in DOMAIN ranked :
                  /\ Cardinality(from(i)) = 1
                  /\ ranked[i].num = 1 /\ ranked[i].den = 1
                  /\ ranked[i].attendeeAvailability = (user.email :> "free")
            /\ \A i, j \in DOMAIN ranked : i < j => ranked[i].start < ranked[j].start
            /\ out.candidates = Slice(ranked, input.maxCandidates)

C21_Witness ==
    /\ pc = "sliced"
    /\ Len(users) = 1
    /\ Len(users[1].free) = 3
    /\ Len(ranked) = 2
    /\ ~HasBuffers(input)
    /\ \A i \in DOMAIN ranked :
          \E k \in DOMAIN users[1].free :
              ranked[i].start = users[1].free[k].start
                 /\ ranked[i].end = users[1].free[k].end

------------------------------------------------------------------------------
(* mcp.ts : MCPServer, the handler of tool calls *)

\* The tools the switch of the handler knows.
Tools ==
    {"health_check", "get_availability", "propose_meeting_times",
     "book_meeting", "cancel_meeting"}

\* What a call ends with: a value returned, an Error thrown with a message,
\* or a value thrown that is not an Error.
Returned(text) == [kind |-> "return", isError |-> FALSE, message |-> text]

ThrownError(message) == [kind |-> "throw", isError |-> TRUE, message |-> message]

ThrownValue == [kind |-> "throw", isError |-> FALSE, message |-> "none"]

\* A response of the handler; "none" stands for a field that is absent.
NoError == [code |-> "none", message |-> "none", details |-> "none"]

ContentResponse(text) == [content |-> text, error |-> NoError]

\* errorOutput of the catch block.
errorOutput(error) ==
    [content |-> "none",
     error |-> [code |-> "TOOL_EXECUTION_FAILED",
                message |-> IF error.isError THEN error.message
                            ELSE "Unknown error occurred",
                details |-> IF error.isError THEN "stack" ELSE "undefined"]]

\* handleHealthCheck: its own catch turns a failure of getScopes into a
\* result with ok false.
handleHealthCheck(service) ==
    IF service.kind = "return" THEN Returned("ok:true") ELSE Returned("ok:false")

\* handleGetAvailability, handleProposeMeetingTimes, handleBookMeeting and
\* handleCancelMeeting: the schema parses the arguments, then the service is
\* awaited and its result is returned as text.
handleTool(args, service) ==
    IF args = "invalid" THEN ThrownError("ZodError") ELSE service

\* The switch over the name of the tool.
switchTool(name, args, service) ==
    IF name = "health_check" THEN handleHealthCheck(service)
    ELSE IF name \in Tools THEN handleTool(args, service)
    ELSE ThrownError("Unknown tool")

\* Mutant of catchToolError: the catch block throws the error again.
catchToolError_rethrow(outcome) == outcome

\* The try/catch of the handler: what was thrown in the switch is returned as
\* an error object.
catchToolError(outcome) ==
    IF outcome.kind = "throw"
        THEN [kind |-> "return", response |-> errorOutput(outcome)]
        ELSE [kind |-> "return", response |-> ContentResponse(outcome.message)]

\* The names a client may call: the tools and a name the server does not know.
ToolNames == Tools \cup {"no_such_tool"}

\* What the service behind a tool does when it is reached.
ServiceOutcomes ==
    {Returned("result"), ThrownError("provider failure"), ThrownValue}

\* The number of tool calls of a session.
MaxToolCalls == 2

NoRequest == [name |-> "none", args |-> "none", service |-> Returned("none")]

InitMcp ==
    /\ pc = "listening"
    /\ input = NoRequest
    /\ users = <<>>
    /\ responses = <<>>
    /\ calls = <<>>
    /\ ranked = <<>>
    /\ out = ContentResponse("none")
    /\ attempt = 0
    /\ graphResult = NoGraphResult

\* A CallTool request arrives and the handler runs up to the await of the
\* service of the tool.
ToolCalled ==
    /\ pc = "listening"
    /\ attempt < MaxToolCalls
    /\ \E name \in ToolNames, args \in {"valid", "invalid"} :
          input' = [name |-> name, args |-> args, service |-> Returned("none")]
    /\ attempt' = attempt + 1
    /\ pc' = "handling"
    /\ UNCHANGED <<users, responses, calls, ranked, out, graphResult>>

\* The service answers or throws and the handler ends: with a response, after
\* which the server listens again, or with an exception that leaves it.
ToolHandled ==
    /\ pc = "handling"
    /\ \E service \in ServiceOutcomes :
          LET request == [input EXCEPT !.service = service]
              outcome == switchTool(request.name, request.args, service)
              result == catchToolError(outcome)
          IN  /\ calls' = Append(calls, request)
              /\ IF result.kind = "return"
                     THEN /\ responses' = Append(responses, result.response)
                          /\ out' = result.response
                          /\ pc' = "listening"
                     ELSE /\ responses' = responses
                          /\ out' = out
                          /\ pc' = "escaped"
    /\ UNCHANGED <<input, users, ranked, attempt, graphResult>>

NextMcp == ToolCalled \/ ToolHandled

SpecMcp == InitMcp /\ [][NextMcp]_vars

------------------------------------------------------------------------------
(* scheduling/book.ts : BookingService.bookMeeting *)

\* validateMeetingInput: TRUE when no error is collected.
validateMeetingInput(in) ==
    /\ in.bodyHtml # ""
    /\ in.startFormat # "bare"
    /\ in.endFormat # "bare"
    /\ in.start < in.end
    /\ in.end - in.start <= 24 * TicksPerHour

\* Requests to bookMeeting, valid and invalid ones.
BookInputs ==
    {[participants |-> ps, allowConflicts |-> a, bodyHtml |-> b,
      start |-> Minutes(w[1]), end |-> Minutes(w[2]),
      startFormat |-> f, endFormat |-> "offset"] :
        ps \in {<<>>, <<1>>, <<1, 2>>, <<1, 2, 3>>}, a \in BOOLEAN,
        b \in {"", "html"}, w \in {<<0, 30>>, <<30, 0>>},
        f \in {"offset", "bare"}}

\* What the calendar view request of one participant ends with: no event, no
\* value at all, at least one event, or an error thrown by the provider.
CalendarViews == {"empty", "no value", "events", "error"}

NoBooking == [eventId |-> "none", error |-> "none"]

BookingFailed(message) == [eventId |-> "none", error |-> message]

\* Where bookMeeting stands once getClient has resolved.
afterClient(in) ==
    IF ~in.allowConflicts /\ Len(in.participants) > 0 THEN "check" ELSE "create"

\* Mutant of afterView: the conflict error is caught and logged with the
\* others.
afterView_logged(view, checked, total) ==
    IF checked < total THEN "check" ELSE "create"

\* checkForConflicts after the view of one participant: events in the view
\* throw the Scheduling conflict error, which the catch throws on; anything
\* else goes on to the next participant, and to createEvent after the last.
afterView(view, checked, total) ==
    IF view = "events" THEN "failed"
    ELSE IF checked < total THEN "check" ELSE "create"

InitBook ==
    /\ pc = "start"
    /\ input \in BookInputs
    /\ users = <<>>
    /\ responses = <<>>
    /\ calls = <<>>
    /\ ranked = <<>>
    /\ out = NoBooking
    /\ attempt = 1
    /\ graphResult = NoGraphResult

\* validateMeetingInput throws, or getClient is awaited.
BookValidate ==
    /\ pc = "start"
    /\ IF validateMeetingInput(input)
           THEN pc' = "client" /\ out' = out
           ELSE pc' = "failed" /\ out' = BookingFailed("Meeting validation failed")
    /\ UNCHANGED <<input, users, responses, calls, ranked, attempt, graphResult>>

\* getClient resolves, and the conflict check or createEvent starts, or it
\* rejects.
BookClient ==
    /\ pc = "client"
    /\ \E ok \in BOOLEAN :
          IF ok THEN pc' = afterClient(input) /\ out' = out
          ELSE pc' = "failed" /\ out' = BookingFailed("getClient")
    /\ UNCHANGED <<input, users, responses, calls, ranked, attempt, graphResult>>

\* One turn of the loop of checkForConflicts: the calendar view of the next
\* participant is requested and answered.
CheckConflict ==
    /\ pc = "check"
    /\ LET email == input.participants[Len(responses) + 1]
       IN  /\ calls' = Append(calls, Call("calendarView", email))
           /\ \E view \in CalendarViews :
                 /\ responses' = Append(responses, view)
                 /\ pc' = afterView(view, Len(responses) + 1, Len(input.participants))
                 /\ out' = IF pc' = "failed"
                               THEN BookingFailed("Scheduling conflict")
                               ELSE out
    /\ UNCHANGED <<input, users, ranked, attempt, graphResult>>

\* createEvent: the event is posted; the provider creates it or fails.
CreateEvent ==
    /\ pc = "create"
    /\ calls' = Append(calls, Call("events", 0))
    /\ \E ok \in BOOLEAN :
          IF ok THEN pc' = "done" /\ out' = [eventId |-> "id", error |-> "none"]
          ELSE pc' = "failed" /\ out' = BookingFailed("Failed to create event")
    /\ UNCHANGED <<input, users, responses, ranked, attempt, graphResult>>

NextBook == BookValidate \/ BookClient \/ CheckConflict \/ CreateEvent

SpecBook == InitBook /\ [][NextBook]_vars

------------------------------------------------------------------------------
(* graph/auth.ts : GraphClientFactory.executeWithRetry *)

\* The errors an operation throws: throttling with and without Retry-After,
\* server errors, a client error, and a message that carries Retry-After
\* without 429.
GraphErrors ==
    {GraphError({"429"}, NoRetryAfter), GraphError({"429"}, 0),
     GraphError({"429"}, 20), GraphError({"503"}, NoRetryAfter),
     GraphError({"404"}, NoRetryAfter), GraphError({"404"}, 20),
     GraphError({}, NoRetryAfter)}

\* The error thrown when the loop made no attempt.
NoAttemptError == GraphError({"Graph API call failed after retries"}, NoRetryAfter)

NoOutcome == [kind |-> "none", error |-> GraphError({}, NoRetryAfter)]

\* Calls of executeWithRetry: maxRetries left out (the default) or given.
InitRetry ==
    /\ pc = "start"
    /\ input \in [maxRetries : {0, 1, MaxRetries, MaxRetries + 1}]
    /\ users = <<>>
    /\ responses = <<>>
    /\ calls = <<>>
    /\ ranked = <<>>
    /\ out = NoOutcome
    /\ attempt = 1
    /\ graphResult = NoGraphResult

\* The loop is entered: the operation is invoked for the first time, or no
\* attempt is allowed and the loop is left at once.
RetryEnter ==
    /\ pc = "start"
    /\ IF attempt <= input.maxRetries
           THEN /\ calls' = Append(calls, Call("operation", attempt))
                /\ pc' = "calling"
                /\ out' = out
           ELSE /\ calls' = calls
                /\ pc' = "threw"
                /\ out' = [kind |-> "throw", error |-> NoAttemptError]
    /\ UNCHANGED <<input, users, responses, ranked, attempt, graphResult>>

\* The operation resolves: its result is returned.
OperationResolves ==
    /\ pc = "calling"
    /\ pc' = "returned"
    /\ out' = [kind |-> "return", error |-> GraphError({}, NoRetryAfter)]
    /\ UNCHANGED <<input, users, responses, calls, ranked, attempt, graphResult>>

\* The operation rejects: the error is thrown, or a sleep starts.
OperationRejects ==
    /\ pc = "calling"
    /\ \E error \in GraphErrors :
          /\ responses' = Append(responses, error)
          /\ pc' = afterFailure(attempt, input.maxRetries, error)
          /\ IF pc' = "sleeping"
                 THEN /\ ranked' = Append(ranked, calculateRetryDelay(attempt, error))
                      /\ out' = out
                 ELSE /\ ranked' = ranked
                      /\ out' = [kind |-> "throw", error |-> error]
    /\ UNCHANGED <<input, users, calls, attempt, graphResult>>

\* The promise of the operation never settles: the await has no timer beside
\* it, executeWithRetry stays suspended.
OperationSilent ==
    /\ pc = "calling"
    /\ pc' = "suspended"
    /\ UNCHANGED <<input, users, responses, calls, ranked, out, attempt,
                   graphResult>>

\* The sleep ends: the next attempt invokes the operation again.
SleepEnds ==
    /\ pc = "sleeping"
    /\ attempt' = attempt + 1
    /\ calls' = Append(calls, Call("operation", attempt + 1))
    /\ pc' = "calling"
    /\ UNCHANGED <<input, users, responses, ranked, out, graphResult>>

NextRetry ==
    \/ RetryEnter
    \/ OperationResolves
    \/ OperationRejects
    \/ OperationSilent
    \/ SleepEnds

SpecRetry == InitRetry /\ [][NextRetry]_vars

\* Every step that can be taken is taken eventually: a settled promise
\* resumes the loop and the timer of a sleep fires.
FairSpecRetry == SpecRetry /\ WF_vars(NextRetry)

------------------------------------------------------------------------------
(* Properties of the handler of tool calls *)

\* The tool call threw: the name is unknown, or the arguments of a tool other
\* than health_check do not parse, or its service threw.
ToolThrew(request) ==
    \/ request.name \notin Tools
    \/ /\ request.name # "health_check"
       /\ request.args = "invalid" \/ request.service.kind = "throw"

\* C22: no exception leaves the handler of tool calls: every call gets a
\* response, the response of a call whose tool threw or whose name is unknown
\* is an error object with a code, a message and details, and the server
\* goes on listening.
C22_NoEscape ==
    /\ pc \in {"listening", "handling"}
    /\ Len(responses) = Len(calls)
    /\ pc = "listening" => Len(responses) = attempt
    /\ \A i \in DOMAIN responses :
          IF ToolThrew(calls[i])
              THEN /\ responses[i].content = "none"
                   /\ responses[i].error.code = "TOOL_EXECUTION_FAILED"
                   /\ responses[i].error.message # "none"
                   /\ responses[i].error.details # "none"
                   /\ calls[i].name \notin Tools =>
                          responses[i].error.message = "Unknown tool"
              ELSE responses[i].error = NoError /\ responses[i].content # "none"

C22_Witness ==
    /\ pc = "listening"
    /\ Len(responses) = 2
    /\ calls[1].name = "book_meeting" /\ calls[1].service.kind = "throw"
    /\ responses[1].error.message = "provider failure"
    /\ calls[2].name = "book_meeting"
    /\ responses[2] = ContentResponse("result")

------------------------------------------------------------------------------
(* Properties of the fold over the participants *)

\* The running common interval of a seed after participants 2..i are folded.
RunningCommon(seed, i) ==
    foldUsers(SubSeq(users, 1, i), 2,
              [common |-> seed, att |-> (users[1].email :> "free"),
               narrowed |-> FALSE]).common

\* The overlap of two intervals as a length of time, 0 when they are apart.
OverlapTicks(a, b) ==
    IF intervalsOverlap(a, b)
        THEN Min(a.end, b.end) - Max(a.start, b.start)
        ELSE 0

\* Folding participants i..N into the running common interval `target` of a
\* seed: findBestIntersection takes, of the free intervals of the participant
\* that overlap the target, the one of the greatest overlap, the first one of
\* them, and null when none overlaps; the common interval becomes that
\* intersection, and at the end it is the one the fold computed.
RECURSIVE PicksGreatest(_, _, _)
PicksGreatest(seed, i, target) ==
    IF i > Len(users) THEN RunningCommon(seed, Len(users)) = target
    ELSE LET free == users[i].free
             overlapping == {k \in DOMAIN free : OverlapTicks(target, free[k]) > 0}
             greatest == {k \in overlapping :
                            \A j \in overlapping :
                                OverlapTicks(target, free[k])
                                   >= OverlapTicks(target, free[j])}
             first == CHOOSE k \in greatest : \A j \in greatest : k <= j
             picked == Interval(Max(target.start, free[first].start),
                                Min(target.end, free[first].end))
         IN  IF overlapping = {}
                 THEN /\ findBestIntersection(target, free) = NoInterval
                      /\ PicksGreatest(seed, i + 1, target)
                 ELSE /\ findBestIntersection(target, free) = picked
                      /\ PicksGreatest(seed, i + 1, picked)

\* C23: the free interval picked for participant i is the one of the
\* greatest overlap with the running common interval, the first on equal
\* overlap, and the common interval becomes that intersection.
C23_GreatestOverlap ==
    (pc = "sliced" /\ Len(users) >= 2) =>
        \A seed \in Range(users[1].free) : PicksGreatest(seed, 2, seed)

\* The fold of a seed before any other participant is looked at.
SeedFold(seed) ==
    [common |-> seed, att |-> (users[1].email :> "free"), narrowed |-> FALSE]

\* Participants i..N folded one at a time from `acc`: a participant none of
\* whose free intervals overlaps the running common interval is marked busy
\* and leaves the interval as it was; at the end the fold is the one the
\* engine computed.
RECURSIVE BusyLeavesCommon(_, _, _)
BusyLeavesCommon(seed, i, acc) ==
    IF i > Len(users) THEN acc = foldUsers(users, 2, SeedFold(seed))
    ELSE LET user == users[i]
             next == foldUsers(SubSeq(users, 1, i), i, acc)
             apart == \A k \in DOMAIN user.free :
                          ~intervalsOverlap(acc.common, user.free[k])
         IN  /\ apart => /\ next.common = acc.common
                         /\ next.att[user.email] = "busy"
                         /\ \A e \in DOMAIN acc.att : next.att[e] = acc.att[e]
             /\ BusyLeavesCommon(seed, i + 1, next)

\* confidence = (1.0 * free + 0.5 * tentative) / N
ConfidenceOver(c, n) ==
    c.num * 2 * n
       = c.den * (2 * CountStatus(c.attendeeAvailability, "free")
                    + CountStatus(c.attendeeAvailability, "tentative"))

\* C24: with several participants, a participant without a free interval
\* that overlaps the running common interval is marked busy and leaves the
\* interval unchanged; the candidate of the seed is still produced when
\* another participant narrowed it and it is long enough, and the confidence
\* of every candidate is (free + tentative / 2) / N, the busy participants
\* counted in N.
C24_BusyParticipant ==
    (pc = "sliced" /\ Len(users) >= 2) =>
        /\ \A seed \in Range(users[1].free) :
              LET folded == foldUsers(users, 2, SeedFold(seed))
                  slot == meetingSlot(input, folded.common)
              IN  /\ BusyLeavesCommon(seed, 2, SeedFold(seed))
                  /\ (folded.narrowed /\ slot # <<>>) =>
                        \E c \in Range(ranked) :
                            /\ c.start = slot[1].start
                            /\ c.end = slot[1].end
                            /\ c.attendeeAvailability = folded.att
        /\ \A c \in Range(ranked) :
              /\ DOMAIN c.attendeeAvailability = {users[i].email : i \in DOMAIN users}
              /\ ConfidenceOver(c, Len(users))

C24_Witness ==
    /\ pc = "sliced"
    /\ Len(users) = 3
    /\ \E c \in Range(ranked) :
          /\ c.attendeeAvailability[2] = "busy"
          /\ c.attendeeAvailability[3] = "free"
          /\ c.num = 4 /\ c.den = 6
          /\ \A k \in DOMAIN users[2].free : ~intervalsOverlap(c, users[2].free[k])

\* C25: in the local path the minimum-attendance filter comes after the
\* ranking and the cut to maxCandidates: the output is, in the same order,
\* those of the first maxCandidates ranked candidates that meet the
\* threshold, so it may hold fewer than maxCandidates, and a candidate ranked
\* after position maxCandidates is never in it.
C25_FilterAfterTruncation ==
    pc = "filtered" =>
        LET MeetsThreshold(c) ==
                input.minRequiredAttendees = 0
                   \/ Available(c) >= input.minRequiredAttendees
        IN  /\ out.candidates
                 = SelectSeq(Slice(ranked, input.maxCandidates), MeetsThreshold)
            /\ Len(out.candidates) <= input.maxCandidates
            /\ \A i \in DOMAIN ranked :
                  (i > input.maxCandidates
                     /\ \A j \in 1..input.maxCandidates : ranked[j] # ranked[i])
                      => ranked[i] \notin Range(out.candidates)

C25_Witness ==
    /\ pc = "filtered"
    /\ Len(ranked) = 3
    /\ input.maxCandidates = 2
    /\ input.minRequiredAttendees = Len(users)
    /\ Available(ranked[1]) < Len(users)
    /\ Available(ranked[2]) < Len(users)
    /\ Available(ranked[3]) = Len(users)
    /\ out.candidates = <<>>

------------------------------------------------------------------------------
(* Properties of bookMeeting *)

\* The positions in calls of the requests to an api.
CallsTo(api) == {i \in DOMAIN calls : calls[i].api = api}

\* C26: with allowConflicts false the event is created only after the
\* calendar view of every participant has been requested and answered, and
\* never when one of the views held an event: bookMeeting then fails with a
\* Scheduling conflict error.  With allowConflicts true no calendar view is
\* requested.
C26_ConflictCheckFirst ==
    /\ (~input.allowConflicts /\ CallsTo("events") # {}) =>
          /\ Len(responses) = Len(input.participants)
          /\ \A p \in DOMAIN input.participants :
                \E i \in CallsTo("calendarView") :
                    /\ calls[i].email = input.participants[p]
                    /\ \A j \in CallsTo("events") : i < j
          /\ \A i \in DOMAIN responses : responses[i] # "events"
    /\ (~input.allowConflicts /\ \E i \in DOMAIN responses : responses[i] = "events") =>
          /\ CallsTo("events") = {}
          /\ pc = "failed"
          /\ out = BookingFailed("Scheduling conflict")
    /\ input.allowConflicts =>
          CallsTo("calendarView") = {} /\ responses = <<>>

C26_Witness ==
    /\ pc = "failed"
    /\ ~input.allowConflicts
    /\ Len(input.participants) = 3
    /\ responses = <<"error", "events">>
    /\ CallsTo("events") = {}
    /\ out = BookingFailed("Scheduling conflict")

------------------------------------------------------------------------------
(* Properties of the working hours *)

\* C27: a participant whose availability was obtained has working hours:
\* those of the mailbox settings when the lookup succeeded and gave them,
\* Monday to Friday 09:00-17:00 otherwise; a failed lookup of the mailbox
\* settings does not make the participant fail.  The working hours are null
\* only in the empty entry of a participant that failed.
C27_WorkingHoursKnown ==
    pc = "returned" =>
        \A i \in DOMAIN out.users :
            LET r == responses[i]
                entry == out.users[i]
            IN  IF ProviderFailed(r)
                    THEN entry = EmptyAvailability(input.participants[i])
                    ELSE /\ entry.workingHours # NullWorkingHours
                         /\ r.mailbox = "hours" =>
                               entry.workingHours = MailboxWorkingHours
                         /\ r.mailbox # "hours" =>
                               entry.workingHours
                                  = [start |-> "09:00", end |-> "17:00",
                                     days |-> {1, 2, 3, 4, 5}]
                         /\ entry # EmptyAvailability(input.participants[i])

C27_Witness ==
    /\ pc = "returned"
    /\ Len(out.users) = 2
    /\ responses[1].client /\ responses[1].mailbox = "fail"
    /\ responses[1].schedule = "ok"
    /\ out.users[1].workingHours = DefaultWorkingHours
    /\ out.users[1].free # <<>>
    /\ ProviderFailed(responses[2])
    /\ out.users[2].workingHours = NullWorkingHours

------------------------------------------------------------------------------
(* Properties of the attendee statuses *)

\* Every boundary of every free interval is a whole minute.
WholeMinutes ==
    \A i \in DOMAIN users : \A k \in DOMAIN users[i].free :
        users[i].free[k].start % TicksPerMinute = 0
           /\ users[i].free[k].end % TicksPerMinute = 0

\* C28: on inputs of whole minutes, in every candidate of the
\* multi-participant path a participant marked free has one free interval
\* that holds the candidate and its buffers before and after, and a
\* participant marked busy has no free interval that overlaps the candidate.
C28_StatusSound ==
    (pc = "sliced" /\ Len(users) >= 2 /\ WholeMinutes) =>
        \A c \in Range(ranked), i \in DOMAIN users :
            LET status == c.attendeeAvailability[users[i].email]
                buffered == Interval(c.start - input.bufferBeforeMinutes * TicksPerMinute,
                                     c.end + input.bufferAfterMinutes * TicksPerMinute)
            IN  /\ status = "free" =>
                      \E k \in DOMAIN users[i].free :
                          /\ users[i].free[k].start <= buffered.start
                          /\ buffered.end <= users[i].free[k].end
                /\ status = "busy" =>
                      \A k \in DOMAIN users[i].free :
                          ~intervalsOverlap(c, users[i].free[k])
                /\ status \in {"free", "busy"}

C28_Witness ==
    /\ pc = "sliced"
    /\ Len(users) = 3
    /\ WholeMinutes
    /\ input.bufferBeforeMinutes = 1 /\ input.bufferAfterMinutes = 1
    /\ \E c \in Range(ranked) :
          /\ c.attendeeAvailability[2] = "free"
          /\ c.attendeeAvailability[3] = "busy"
          /\ users[3].free # <<>>

------------------------------------------------------------------------------
(* Properties of the number of candidates *)

\* The candidates that start within a free interval.
StartingIn(interval) ==
    {i \in DOMAIN ranked :
        interval.start <= ranked[i].start /\ ranked[i].start < interval.end}

\* C29: findIntersectingSlots makes at most one candidate for each free
\* interval of the first participant, however long the interval is: there
\* are never more candidates than such intervals, and none when the first
\* participant has no free interval, whatever the others' availability is.
C29_OnePerSeed ==
    (pc = "sliced" /\ Len(users) >= 1) =>
        LET seeds == users[1].free
        IN  /\ Len(ranked) <= Len(seeds)
            /\ Len(out.candidates) <= Len(seeds)
            /\ \A k \in DOMAIN seeds : Cardinality(StartingIn(seeds[k])) <= 1
            /\ \A i \in DOMAIN ranked : \E k \in DOMAIN seeds : i \in StartingIn(seeds[k])
            /\ seeds = <<>> => (ranked = <<>> /\ out.candidates = <<>>)

C29_Witness ==
    /\ pc = "sliced"
    /\ Len(users) = 2
    /\ users[1].free = <<Interval(0, 4 * TicksPerMinute)>>
    /\ Len(users[2].free) = 2
    /\ \A k \in DOMAIN users[2].free :
          getDurationMinutes(users[2].free[k].start, users[2].free[k].end)
             >= input.durationMinutes
    /\ ~HasBuffers(input)
    /\ Len(ranked) = 1

------------------------------------------------------------------------------
(* Properties of executeWithRetry *)

\* What the retry loop keeps to at every moment: at most maxRetries
\* invocations; another invocation only after a retryable failure and a sleep
\* of min(2^(attempt-1) * base, 30000) ms; a result returned at the first
\* success; the last error thrown after a failure that is not retryable or
\* is the maxRetries-th.
RetryDiscipline ==
    /\ Len(calls) <= Max(input.maxRetries, 0)
    /\ \A i \in DOMAIN calls : i < Len(calls) =>
          /\ shouldRetry(responses[i])
          /\ ranked[i] = Min(Pow2(i - 1)
                                * (IF "429" \in responses[i].codes
                                        /\ responses[i].retryAfter # NoRetryAfter
                                     THEN responses[i].retryAfter * 1000
                                     ELSE 1000),
                             30000)
    /\ pc = "returned" => Len(responses) = Len(calls) - 1
    /\ (pc = "threw" /\ calls # <<>>) =>
          /\ Len(responses) = Len(calls)
          /\ out.error = responses[Len(responses)]
          /\ ~shouldRetry(out.error) \/ Len(calls) = input.maxRetries

\* C30: executeWithRetry invokes the operation at most maxRetries times and
\* always ends, with the first result or with the last error; it invokes the
\* operation again only after a retryable failure and the sleep computed for
\* the attempt.
C30_RetryTerminates == [](RetryDiscipline) /\ <>(pc \in {"returned", "threw"})

====
